---- MODULE Spec2Model ----
(***************************************************************************)
(* Model of functions.py, the helper module of the visual-demographics     *)
(* notebook: code/name lookup, the panel joiner join_data, the extractors  *)
(* country_stats / continent_stats and the control flow of the renderers   *)
(* plot_country_bars and plot_multi_predictors.                            *)
(*                                                                         *)
(* The functions are independent of one another, so each family has its    *)
(* own specification over its own variables (SpecLookup, SpecPlot,         *)
(* SpecCountry, SpecCont, SpecJoin and SpecJoinSingle); the variables of   *)
(* the other families stay at their idle values.                           *)
(***************************************************************************)
EXTENDS Integers, Sequences, FiniteSets, TLC

VARIABLES
    \* ---- country_to_code / code_to_country
    codes,          \* the dictionary argument, in iteration order: Seq of [key, item]
    country,        \* the name handed to country_to_code
    found_code,     \* what country_to_code returned
    found_country,  \* what code_to_country returned for found_code
    lpc,            \* "start" | "coded" | "named"
    \* ---- plot_country_bars
    bar_rows,       \* number of rows of the table handed to plot_country_bars
    bar_cols,       \* number of its columns
    figures,        \* figures created by plt.subplots in plot_country_bars
    notices,        \* "The dataset is empty!" lines printed
    bpc,            \* "start" | "done"
    \* ---- plot_multi_predictors
    length,         \* len(predictors)
    nrows,          \* rows of the subplot grid
    axes_ndim,      \* dimensions of the axes array plt.subplots returned
    reg_i,          \* i, the index of the first loop
    hide_j,         \* j, the index of the second loop
    drawn,          \* cells a regplot was drawn in: <<row, col, predictor>>
    hidden,         \* cells whose axis was set off: <<row, col>>
    mpc,            \* "start" | "regplot" | "hide" | "done" | "raised"
    \* ---- country_stats
    cpanel,         \* the data argument: Seq of rows [country_code, Year, stat]
    c_code,         \* the country_code argument
    c_out,          \* the returned frame: row labels of cpanel, in output order
    cpc,            \* "start" | "done"
    \* ---- continent_stats
    kpanel,         \* the data argument: Seq of rows [cont_code, Year, stat, Population]
    k_code,         \* the cont_code argument
    groups,         \* the returned series: Year -> <<sum(metric * weight), sum(weight)>>
    kpc,            \* "start" | "done" | "raised"
    \* ---- join_data
    dictionary,     \* the indicator tables, in iteration order: Seq of [key, frame]
    year_list,      \* <<first year, last year>>
    base0,          \* the caller's panel as it was when join_data was called
    base,           \* the caller's panel object as it is now
    data,           \* the frame the local name data is bound to
    aliased,        \* TRUE while data is still the caller's object
    table_i,        \* position of the outer loop in dictionary
    row_i,          \* position of the inner loop in the current frame
    result,         \* the frame join_data returned (the empty tuple until it returns)
    jpc             \* "for_key" | "for_row" | "done" | "raised"

lookupVars == <<codes, country, found_code, found_country, lpc>>
barVars == <<bar_rows, bar_cols, figures, notices, bpc>>
multiVars == <<length, nrows, axes_ndim, reg_i, hide_j, drawn, hidden, mpc>>
plotVars == <<barVars, multiVars>>
countryVars == <<cpanel, c_code, c_out, cpc>>
contVars == <<kpanel, k_code, groups, kpc>>
joinVars == <<dictionary, year_list, base0, base, data, aliased, table_i, row_i, result, jpc>>

vars == <<lookupVars, plotVars, countryVars, contVars, joinVars>>

\* What each family's actions leave alone.
notLookup == <<plotVars, countryVars, contVars, joinVars>>
notPlot == <<lookupVars, countryVars, contVars, joinVars>>
notCountry == <<lookupVars, plotVars, contVars, joinVars>>
notCont == <<lookupVars, plotVars, countryVars, joinVars>>
notJoin == <<lookupVars, plotVars, countryVars, contVars>>

\* Python's None, the value both lookups return when nothing matches.
None == "None"

\* A missing value (np.nan) in a numeric column; present values are naturals.
NaN == -1

(***************************************************************************)
(* Idle values: what the variables of a family hold under the              *)
(* specifications of the other families.                                   *)
(***************************************************************************)

LookupIdle ==
    /\ codes = <<>>
    /\ country = None
    /\ found_code = None
    /\ found_country = None
    /\ lpc = "idle"

CountryIdle ==
    /\ cpanel = <<>> /\ c_code = None /\ c_out = <<>> /\ cpc = "idle"

ContIdle ==
    /\ kpanel = <<>> /\ k_code = None /\ groups = <<>> /\ kpc = "idle"

JoinIdle ==
    /\ dictionary = <<>> /\ year_list = <<0, 0>>
    /\ base0 = <<>> /\ base = <<>> /\ data = <<>> /\ aliased = FALSE
    /\ table_i = 0 /\ row_i = 0 /\ result = <<>> /\ jpc = "idle"

PlotIdle ==
    /\ bar_rows = 0 /\ bar_cols = 0 /\ figures = 0 /\ notices = 0 /\ bpc = "idle"
    /\ length = 0 /\ nrows = 0 /\ axes_ndim = 0 /\ reg_i = 0 /\ hide_j = 0
    /\ drawn = {} /\ hidden = {} /\ mpc = "idle"

(***************************************************************************)
(* Code / name lookup (functions.py lines 10-23)                           *)
(***************************************************************************)

Codes == {"FI", "SE", "NO", "DK"}
Names == {"Finland", "Sweden", None}

\* Longest dictionary enumerated.
MaxMapLen == 3

\* A dict in iteration order: keys are unique.
IsDict(d) == \A i, j \in 1..Len(d) : d[i].key = d[j].key => i = j

RECURSIVE ScanItems(_, _, _)
\* for key, item in dictionary.items(): if item == country: return key
ScanItems(dict, name, i) ==
    IF i > Len(dict) THEN None
    ELSE IF dict[i].item = name THEN dict[i].key
    ELSE ScanItems(dict, name, i + 1)

RECURSIVE ScanItemsLast(_, _, _)
\* a scan that keeps going after a match and so returns the last matching key
ScanItemsLast(dict, name, i) ==
    IF i > Len(dict) THEN None
    ELSE LET rest == ScanItemsLast(dict, name, i + 1) IN
         IF rest # None THEN rest
         ELSE IF dict[i].item = name THEN dict[i].key ELSE None

country_to_code_last(name, dict) == ScanItemsLast(dict, name, 1)

country_to_code(name, dict) == ScanItems(dict, name, 1)

RECURSIVE ScanKeys(_, _, _)
\* for key, item in dictionary.items(): if key == country_code: return item
ScanKeys(dict, code, i) ==
    IF i > Len(dict) THEN None
    ELSE IF dict[i].key = code THEN dict[i].item
    ELSE ScanKeys(dict, code, i + 1)

code_to_country(code, dict) == ScanKeys(dict, code, 1)

LookupInit ==
    /\ PlotIdle /\ CountryIdle /\ ContIdle /\ JoinIdle
    /\ \E n \in 0..MaxMapLen : codes \in { d \in [1..n -> [key : Codes, item : Names]] : IsDict(d) }
    /\ country = None
    /\ found_code = None
    /\ found_country = None
    /\ lpc = "start"

\* A caller asks for the code of some name (present in the dictionary or not).
CallCountryToCode ==
    /\ lpc = "start"
    /\ \E name \in Names \cup {"Norway"} :
         /\ country' = name
         /\ found_code' = country_to_code(name, codes)
    /\ lpc' = "coded"
    /\ UNCHANGED <<codes, found_country, notLookup>>

\* The caller converts the code it got back into a name.
CallCodeToCountry ==
    /\ lpc = "coded"
    /\ found_country' = code_to_country(found_code, codes)
    /\ lpc' = "named"
    /\ UNCHANGED <<codes, country, found_code, notLookup>>

LookupNext == CallCountryToCode \/ CallCodeToCountry

SpecLookup == LookupInit /\ [][LookupNext]_vars

Items(dict) == { dict[i].item : i \in 1..Len(dict) }

\* C1: for every name among the dictionary's values,
\* code_to_country(country_to_code(name, M), M) is that name, and the code in
\* between is the first key (in iteration order) whose value is the name.
C1_RoundTrip ==
    (lpc = "named" /\ country \in Items(codes)) =>
        /\ found_country = country
        /\ \E i \in 1..Len(codes) :
             /\ codes[i].key = found_code
             /\ codes[i].item = country
             /\ \A j \in 1..(i - 1) : codes[j].item # country

\* C1 witness: a round trip through a dictionary in which two codes carry the name.
C1_Witness ==
    /\ lpc = "named"
    /\ found_country = country
    /\ country = "Finland"
    /\ Cardinality({ i \in 1..Len(codes) : codes[i].item = country }) >= 2

(***************************************************************************)
(* Renderers: the control flow of plot_country_bars (lines 60-83) and of   *)
(* plot_multi_predictors (lines 153-177). What is modelled is which        *)
(* figure, notice and grid cell each call touches, not the drawing.        *)
(***************************************************************************)

\* Largest bar-chart table enumerated.
MaxBarRows == 3
MaxBarCols == 4
\* Largest predictor list enumerated.
MaxPredictors == 10

\* Columns of the subplot grid: plt.subplots(nrows=nrows, ncols=3, ...).
NCOLS == 3

\* DataFrame.size with only one axis counted, as len(data.columns) would.
size_columns_only(rows, cols) == cols

\* DataFrame.size: number of rows times number of columns.
size(rows, cols) == rows * cols

\* The table has at least the columns the chart reads (stat and country_name).
PlotInit ==
    /\ LookupIdle /\ CountryIdle /\ ContIdle /\ JoinIdle
    /\ bar_rows \in 0..MaxBarRows
    /\ bar_cols \in 2..MaxBarCols
    /\ figures = 0 /\ notices = 0 /\ bpc = "start"
    /\ length \in 0..MaxPredictors
    /\ nrows = 0 /\ axes_ndim = 0 /\ reg_i = 0 /\ hide_j = 0
    /\ drawn = {} /\ hidden = {} /\ mpc = "start"

\* plot_country_bars(data, year, stat), whole call.
PlotCountryBars ==
    /\ bpc = "start"
    /\ IF size(bar_rows, bar_cols) # 0
         THEN figures' = figures + 1 /\ notices' = notices
         ELSE figures' = figures /\ notices' = notices + 1
    /\ bpc' = "done"
    /\ UNCHANGED <<bar_rows, bar_cols, multiVars, notPlot>>

\* int(n / 3) for a non-negative int: true division, then truncation toward
\* zero (exact for every list length a float holds exactly).
IntDiv(n, d) == n \div d

\* plt.subplots squeezes the array it returns (squeeze=True is the default):
\* a grid of one row comes back as a 1-D array of ncols axes.
SubplotsNdim(rows) == IF rows = 1 THEN 1 ELSE 2

\* axes[r, c] succeeds only on a 2-D array and inside its shape.
CanIndex2(ndim, rows, r, c) ==
    /\ ndim = 2
    /\ r \in 0..(rows - 1)
    /\ c \in 0..(NCOLS - 1)

\* lines 162-165
Subplots ==
    /\ mpc = "start"
    /\ nrows' = IntDiv(length, NCOLS) + 1
    /\ axes_ndim' = SubplotsNdim(IntDiv(length, NCOLS) + 1)
    /\ reg_i' = 0
    /\ mpc' = "regplot"
    /\ UNCHANGED <<length, hide_j, drawn, hidden, barVars, notPlot>>

\* lines 166-175, one iteration
Regplot ==
    /\ mpc = "regplot"
    /\ reg_i < length
    /\ IF CanIndex2(axes_ndim, nrows, IntDiv(reg_i, NCOLS), reg_i % NCOLS)
         THEN /\ drawn' = drawn \cup {<<IntDiv(reg_i, NCOLS), reg_i % NCOLS, reg_i>>}
              /\ reg_i' = reg_i + 1
              /\ mpc' = mpc
         ELSE /\ mpc' = "raised"      \* IndexError
              /\ UNCHANGED <<drawn, reg_i>>
    /\ UNCHANGED <<length, nrows, axes_ndim, hide_j, hidden, barVars, notPlot>>

\* line 176, entering the second loop: range(length % 3, 3)
EnterHide ==
    /\ mpc = "regplot"
    /\ reg_i >= length
    /\ hide_j' = length % NCOLS
    /\ mpc' = "hide"
    /\ UNCHANGED <<length, nrows, axes_ndim, reg_i, drawn, hidden, barVars, notPlot>>

\* line 177, one iteration
SetAxisOff ==
    /\ mpc = "hide"
    /\ hide_j < NCOLS
    /\ IF CanIndex2(axes_ndim, nrows, IntDiv(length, NCOLS), hide_j)
         THEN /\ hidden' = hidden \cup {<<IntDiv(length, NCOLS), hide_j>>}
              /\ hide_j' = hide_j + 1
              /\ mpc' = mpc
         ELSE /\ mpc' = "raised"      \* IndexError
              /\ UNCHANGED <<hidden, hide_j>>
    /\ UNCHANGED <<length, nrows, axes_ndim, reg_i, drawn, barVars, notPlot>>

\* the function returns
MultiReturn ==
    /\ mpc = "hide"
    /\ hide_j >= NCOLS
    /\ mpc' = "done"
    /\ UNCHANGED <<length, nrows, axes_ndim, reg_i, hide_j, drawn, hidden, barVars, notPlot>>

PlotNext ==
    \/ PlotCountryBars
    \/ Subplots
    \/ Regplot
    \/ EnterHide
    \/ SetAxisOff
    \/ MultiReturn

SpecPlot == PlotInit /\ [][PlotNext]_vars

\* C8: on an empty table plot_country_bars creates no figure, prints the notice
\* and returns; on a non-empty table it creates a chart and prints no notice.
C8_EmptyBars ==
    bpc = "done" =>
        IF bar_rows = 0
          THEN figures = 0 /\ notices = 1
          ELSE figures = 1 /\ notices = 0

\* C8 witness: the call on an empty table has returned with the notice printed.
C8_Witness == bpc = "done" /\ bar_rows = 0 /\ notices = 1 /\ figures = 0

Cells(rows) == (0..(rows - 1)) \X (0..(NCOLS - 1))

\* C10: for every n >= 0 the call completes on a grid of int(n/3)+1 rows by 3
\* columns, predictor k drawn in cell (int(k/3), k mod 3), exactly the cells of
\* linear index >= n hidden, and no index outside the grid used.
C10_Grid ==
    /\ mpc # "raised"
    /\ mpc = "done" =>
         /\ nrows = IntDiv(length, NCOLS) + 1
         /\ drawn = { <<IntDiv(k, NCOLS), k % NCOLS, k>> : k \in 0..(length - 1) }
         /\ hidden = { c \in Cells(nrows) : c[1] * NCOLS + c[2] >= length }
         /\ \A d \in drawn : <<d[1], d[2]>> \notin hidden

(***************************************************************************)
(* country_stats (functions.py lines 86-91)                                *)
(***************************************************************************)

CountryCodes == {"FI", "SE"}
PanelYears == {1990, 1991, 1992}

\* Most rows of a panel handed to country_stats.
MaxCountryRows == 3

CountryRows == [country_code : CountryCodes, Year : PanelYears, stat : {NaN, 10}]

\* a mask with the comparison inverted
select_other_codes(df, code) ==
    { k \in 1..Len(df) : df[k].country_code # code }

\* data[data.country_code == country_code]: the labels of the rows kept
select_code(df, code) ==
    { k \in 1..Len(df) : df[k].country_code = code }

\* Year order of two rows under sort_values(by=["Year"]) (ascending).
year_le(a, b) == a.Year <= b.Year

\* .sort_values(by=["Year"]): every ordering of the kept rows that ascends by
\* Year. The default sort is not stable, so rows of equal Year may come out in
\* either order.
sort_values(df, labels) ==
    { out \in [1..Cardinality(labels) -> labels] :
        /\ \A a, b \in 1..Cardinality(labels) : out[a] = out[b] => a = b
        /\ \A a, b \in 1..Cardinality(labels) :
             a < b => year_le(df[out[a]], df[out[b]]) }

CountryInit ==
    /\ LookupIdle /\ PlotIdle /\ ContIdle /\ JoinIdle
    /\ \E n \in 0..MaxCountryRows : cpanel \in [1..n -> CountryRows]
    /\ c_code = None
    /\ c_out = <<>>
    /\ cpc = "start"

\* country_stats(country_code, data), whole call; set_index("Year") turns the
\* Year column of the result into its index and leaves the rows as they are.
CountryStats ==
    /\ cpc = "start"
    /\ \E code \in CountryCodes \cup {"NO"} :
         /\ c_code' = code
         /\ c_out' \in sort_values(cpanel, select_code(cpanel, code))
    /\ cpc' = "done"
    /\ UNCHANGED <<cpanel, notCountry>>

CountryNext == CountryStats

SpecCountry == CountryInit /\ [][CountryNext]_vars

Range(f) == { f[k] : k \in DOMAIN f }

\* The output holds each row of the requested code once and no other row.
C6_Rows ==
    /\ Range(c_out) = { k \in 1..Len(cpanel) : cpanel[k].country_code = c_code }
    /\ Len(c_out) = Cardinality(Range(c_out))

\* C6 as stated: the output of country_stats is strictly ascending by Year,
\* holds every row of the requested code and no other, and is empty (no error)
\* when no row matches.
C6_StrictlySorted ==
    cpc = "done" =>
        /\ C6_Rows
        /\ \A a \in 1..(Len(c_out) - 1) :
             cpanel[c_out[a]].Year < cpanel[c_out[a + 1]].Year

UniqueYears(df, code) ==
    \A a, b \in 1..Len(df) :
        (df[a].country_code = code /\ df[b].country_code = code
            /\ df[a].Year = df[b].Year) => a = b

\* C6 amended: the output ascends by Year (rows of equal Year adjacent), strictly
\* when the panel has one row per Year for the code; it holds every row of the
\* requested code and no other, and is empty when no row matches.
C6_Sorted ==
    cpc = "done" =>
        /\ C6_Rows
        /\ \A a \in 1..(Len(c_out) - 1) :
             cpanel[c_out[a]].Year <= cpanel[c_out[a + 1]].Year
        /\ UniqueYears(cpanel, c_code) =>
             \A a \in 1..(Len(c_out) - 1) :
                 cpanel[c_out[a]].Year < cpanel[c_out[a + 1]].Year

\* C6 witness: three rows of the code came back reordered, past a row of
\* another code.
C6_Witness ==
    /\ cpc = "done"
    /\ Len(cpanel) = 3
    /\ Len(c_out) = 2
    /\ c_out = <<3, 1>>
    /\ cpanel[3].Year < cpanel[1].Year

(***************************************************************************)
(* wavg and continent_stats (functions.py lines 94-109)                    *)
(***************************************************************************)

ContCodes == {"EU", "AS"}
ContYears == {1990, 1991}

\* Most rows of a panel handed to continent_stats.
MaxContRows == 3

ContRows ==
    [cont_code : ContCodes, Year : ContYears, stat : {NaN, 10, 20},
     Population : {NaN, 2, 8}]

Complete(row) == row.stat # NaN /\ row.Population # NaN

StatPresent(row) == row.stat # NaN

\* dropna(subset=[stat]): rows without a Population stay
dropna_stat_only(df) == SelectSeq(df, StatPresent)

\* data.dropna(subset=[stat, "Population"])
dropna(df) == SelectSeq(df, Complete)

RECURSIVE SumProducts(_, _)
\* (metric * weight).sum()
SumProducts(group, k) ==
    IF k > Len(group) THEN 0
    ELSE group[k].stat * group[k].Population + SumProducts(group, k + 1)

RECURSIVE SumWeights(_, _)
\* weight.sum()
SumWeights(group, k) ==
    IF k > Len(group) THEN 0
    ELSE group[k].Population + SumWeights(group, k + 1)

\* wavg(group, metric_name, weight_name): the quotient, kept as the pair
\* <<numerator, denominator>> so that no rounding enters the model.
wavg(group) == <<SumProducts(group, 1), SumWeights(group, 1)>>

\* One group of groupby(["cont_code", "Year"]).
GroupOf(data1, cont, year) ==
    LET InGroup(row) == row.cont_code = cont /\ row.Year = year
    IN  SelectSeq(data1, InGroup)

\* The group keys groupby(["cont_code", "Year"]) produces.
GroupKeys(data1) == { <<data1[k].cont_code, data1[k].Year>> : k \in 1..Len(data1) }

ContInit ==
    /\ LookupIdle /\ PlotIdle /\ CountryIdle /\ JoinIdle
    /\ \E n \in 0..MaxContRows : kpanel \in [1..n -> ContRows]
    /\ k_code = None
    /\ groups = <<>>
    /\ kpc = "start"

\* continent_stats(cont_code, data, stat), whole call. Selecting [cont_code]
\* from the grouped result raises KeyError when the continent has no group.
ContinentStats ==
    /\ kpc = "start"
    /\ \E cont \in ContCodes \cup {"AF"} :
         LET data1 == dropna(kpanel)
             years == { y \in ContYears : <<cont, y>> \in GroupKeys(data1) }
         IN  /\ k_code' = cont
             /\ IF years = {}
                  THEN groups' = groups /\ kpc' = "raised"
                  ELSE /\ groups' = [y \in years |-> wavg(GroupOf(data1, cont, y))]
                       /\ kpc' = "done"
    /\ UNCHANGED <<kpanel, notCont>>

ContNext == ContinentStats

SpecCont == ContInit /\ [][ContNext]_vars

RECURSIVE ProductsOver(_, _)
\* The sum of metric * population over the rows labelled S.
ProductsOver(S, df) ==
    IF S = {} THEN 0
    ELSE LET k == CHOOSE x \in S : TRUE
         IN  df[k].stat * df[k].Population + ProductsOver(S \ {k}, df)

RECURSIVE WeightsOver(_, _)
\* The sum of population over the rows labelled S.
WeightsOver(S, df) ==
    IF S = {} THEN 0
    ELSE LET k == CHOOSE x \in S : TRUE
         IN  df[k].Population + WeightsOver(S \ {k}, df)

\* The rows the claim counts for a continent and a year.
Counted(df, cont, year) ==
    { k \in 1..Len(df) :
        /\ df[k].cont_code = cont /\ df[k].Year = year
        /\ df[k].stat # NaN /\ df[k].Population # NaN }

\* C5: for each year in which the continent has a row with both the metric and
\* Population present, continent_stats returns sum(metric*pop) / sum(pop) over
\* exactly those rows of that continent and year, and it has no other years.
C5_WeightedMean ==
    kpc = "done" =>
        /\ DOMAIN groups = { y \in ContYears : Counted(kpanel, k_code, y) # {} }
        /\ \A y \in DOMAIN groups :
             LET S == Counted(kpanel, k_code, y)
             IN  groups[y] = <<ProductsOver(S, kpanel), WeightsOver(S, kpanel)>>

\* C5 witness: populations [2, 8] with metric values [10, 20] in one year give
\* 180 / 10 = 18, beside a row of the same continent and year that is dropped.
C5_Witness ==
    /\ kpc = "done"
    /\ Len(kpanel) = 3
    /\ \E y \in DOMAIN groups :
         /\ groups[y] = <<180, 10>>
         /\ groups[y][1] = 18 * groups[y][2]
         /\ \E k \in 1..3 :
              /\ kpanel[k].cont_code = k_code /\ kpanel[k].Year = y
              /\ kpanel[k].Population = NaN /\ kpanel[k].stat = 20

(***************************************************************************)
(* join_data (functions.py lines 26-57)                                    *)
(*                                                                         *)
(* A panel frame is [cols, rows]: cols are its columns other than          *)
(* country_code and year, rows a set of [country_code, year, vals] with    *)
(* vals a function on cols. An indicator table is [cols, rows]: cols its   *)
(* year columns (strings), rows a sequence of [country_code, vals].        *)
(* Row order of the panel is not modelled, and the base panel holds no     *)
(* row twice.                                                              *)
(***************************************************************************)

JCountries == {"FI", "SE"}
Indicators == {"GDP", "Pop"}
JoinYears == {1999, 2000}
Values == {NaN, 1, 2}

\* Most indicator tables, most table rows over all tables, most base rows.
MaxTables == 2
MaxFrameRows == 2
MaxBaseRows == 1

Digit(n) ==
    CASE n = 0 -> "0" [] n = 1 -> "1" [] n = 2 -> "2" [] n = 3 -> "3" [] n = 4 -> "4"
      [] n = 5 -> "5" [] n = 6 -> "6" [] n = 7 -> "7" [] n = 8 -> "8" [] n = 9 -> "9"

RECURSIVE str(_)
\* str(year) of a non-negative int: its decimal digits
str(n) == IF n < 10 THEN Digit(n) ELSE str(n \div 10) \o Digit(n % 10)

\* range(year_list[0], year_list[1] + 1)
year_range(yl) == yl[1]..yl[2]

\* The rows of dftemp (lines 40-47): one (country_code, year, value) per year.
dftemp(row, yl) ==
    { [country_code |-> row.country_code, year |-> y, val |-> row.vals[str(y)]] :
        y \in year_range(yl) }

\* row.loc[str(year)] raises KeyError for a year the table has no column for.
HasAllYears(row, yl) == \A y \in year_range(yl) : str(y) \in DOMAIN row.vals

\* pd.merge joins on the columns the two frames share: country_code and year,
\* and the indicator column too when the panel already has one of that name.
\* Missing values compare equal as join keys.
Matches(left, l, rr, key) ==
    /\ l.country_code = rr.country_code
    /\ l.year = rr.year
    /\ key \in left.cols => l.vals[key] = rr.val

\* A left row in the merged frame, paired with right value v.
LeftRow(left, l, v, key) ==
    [l EXCEPT !.vals = [c \in left.cols \cup {key} |->
        IF c = key THEN (IF key \in left.cols THEN l.vals[key] ELSE v)
        ELSE l.vals[c]]]

\* A right row no left row matched: the left frame's columns are missing.
RightRow(left, rr, key) ==
    [country_code |-> rr.country_code, year |-> rr.year,
     vals |-> [c \in left.cols \cup {key} |-> IF c = key THEN rr.val ELSE NaN]]

\* how="inner": only the matched rows survive
merge_inner(left, right, key) ==
    [cols |-> left.cols \cup {key},
     rows |-> { LeftRow(left, p[1], p[2].val, key) :
                  p \in { q \in left.rows \X right : Matches(left, q[1], q[2], key) } }]

\* pd.merge(data, dftemp, how="outer")
merge(left, right, key) ==
    [cols |-> left.cols \cup {key},
     rows |->
        { LeftRow(left, p[1], p[2].val, key) :
            p \in { q \in left.rows \X right : Matches(left, q[1], q[2], key) } }
        \cup { LeftRow(left, l, NaN, key) :
            l \in { x \in left.rows : \A rr \in right : ~Matches(left, x, rr, key) } }
        \cup { RightRow(left, rr, key) :
            rr \in { x \in right : \A l \in left.rows : ~Matches(left, l, x, key) } }]

\* data[col] = np.nan
set_nan(d, col) ==
    [cols |-> d.cols \cup {col},
     rows |-> { [row EXCEPT !.vals = [c \in d.cols \cup {col} |->
                    IF c = col THEN NaN ELSE row.vals[c]]] : row \in d.rows }]

\* data["temp"].fillna(data[key], inplace=True): temp takes the indicator's
\* value where it is still missing. The fill reaches the frame, as the source's
\* comment on line 53 expects (pandas without copy-on-write).
fillna(d, key) ==
    [d EXCEPT !.rows = { [row EXCEPT !.vals["temp"] =
                            IF @ = NaN THEN row.vals[key] ELSE @] : row \in d.rows }]

\* data.drop(columns=[col], inplace=True)
drop(d, col) ==
    [cols |-> d.cols \ {col},
     rows |-> { [row EXCEPT !.vals = [c \in d.cols \ {col} |-> row.vals[c]]] :
                  row \in d.rows }]

\* data[key] = data["temp"]
copy_temp(d, key) ==
    [cols |-> d.cols \cup {key},
     rows |-> { [row EXCEPT !.vals = [c \in d.cols \cup {key} |->
                    IF c = key THEN row.vals["temp"] ELSE row.vals[c]]] :
                  row \in d.rows }]

\* return data.dropna(): rows with a missing value are left out
returned_dropna(d) ==
    [d EXCEPT !.rows = { row \in d.rows : \A c \in d.cols : row.vals[c] # NaN }]

\* return data
returned(d) == d

Key(row) == <<row.country_code, row.year>>

Keys(d) == { Key(row) : row \in d.rows }

UniqueKeys(d) == \A a, b \in d.rows : Key(a) = Key(b) => a = b

\* ---- the inputs enumerated

YearCols == { str(y) : y \in JoinYears }

TableRows(cols) == [country_code : JCountries, vals : [cols -> Values]]

\* The indicator tables of n rows.
Frames(n) ==
    UNION { [cols : {cols}, rows : [1..n -> TableRows(cols)]] : cols \in SUBSET YearCols }

Min(a, b) == IF a <= b THEN a ELSE b

RECURSIVE DictsOf(_, _, _)
\* The dictionaries with the given keys in order, at most budget rows in all
\* and at most per rows in a table.
DictsOf(keys, budget, per) ==
    IF keys = <<>> THEN {<<>>}
    ELSE UNION { { <<[key |-> Head(keys), frame |-> f]>> \o rest :
                     f \in Frames(n), rest \in DictsOf(Tail(keys), budget - n, per) } :
                 n \in 0..Min(budget, per) }

KeySeqs ==
    { ks \in UNION { [1..n -> Indicators] : n \in 0..MaxTables } :
        \A a, b \in 1..Len(ks) : ks[a] = ks[b] => a = b }

\* The dictionaries of at most budget rows in all.
Dictionaries(budget) == UNION { DictsOf(ks, budget, budget) : ks \in KeySeqs }

\* The dictionaries whose tables have at most per rows each.
DictionariesOfShortTables(per) == UNION { DictsOf(ks, per * Len(ks), per) : ks \in KeySeqs }

\* Base panels: no extra column, or a column named like the first indicator.
BaseRows(cols) == [country_code : JCountries, year : JoinYears, vals : [cols -> {NaN, 1}]]

BasePanels(most) ==
    UNION { { [cols |-> cols, rows |-> Range(f)] :
                f \in UNION { [1..n -> BaseRows(cols)] : n \in 0..most } } :
            cols \in {{}, {"GDP"}} }

YearLists == { <<1999, last>> : last \in 1998..2000 }

JoinEntry ==
    /\ LookupIdle /\ PlotIdle /\ CountryIdle /\ ContIdle
    /\ year_list \in YearLists
    /\ base0 \in { b \in BasePanels(MaxBaseRows) : UniqueKeys(b) }
    /\ base = base0
    /\ data = base0
    /\ aliased = TRUE
    /\ table_i = 1
    /\ row_i = 0
    /\ result = <<>>
    /\ jpc = "for_key"

JoinInit == dictionary \in Dictionaries(MaxFrameRows) /\ JoinEntry

JoinSingleInit == dictionary \in DictionariesOfShortTables(1) /\ JoinEntry

\* An in-place change of data reaches the caller's panel while data is that object.
Through(d) == IF aliased THEN d ELSE base

\* line 36: data["temp"] = np.nan, entering the loop body for table table_i
TableStart ==
    /\ jpc = "for_key"
    /\ table_i <= Len(dictionary)
    /\ data' = set_nan(data, "temp")
    /\ base' = Through(set_nan(data, "temp"))
    /\ row_i' = 1
    /\ jpc' = "for_row"
    /\ UNCHANGED <<dictionary, year_list, base0, aliased, table_i, result, notJoin>>

\* lines 38-54 for row row_i of table table_i, when every year has a column
RowMerge ==
    /\ jpc = "for_row"
    /\ row_i <= Len(dictionary[table_i].frame.rows)
    /\ HasAllYears(dictionary[table_i].frame.rows[row_i], year_list)
    /\ LET key == dictionary[table_i].key
           row == dictionary[table_i].frame.rows[row_i]
           merged == merge(data, dftemp(row, year_list), key)
       IN  data' = drop(fillna(merged, key), key)
    /\ aliased' = FALSE           \* line 48 binds data to the merge's new frame
    /\ row_i' = row_i + 1
    /\ UNCHANGED <<dictionary, year_list, base0, base, table_i, jpc, result, notJoin>>

\* line 43 for row row_i of table table_i, when a year has no column: KeyError
RowKeyError ==
    /\ jpc = "for_row"
    /\ row_i <= Len(dictionary[table_i].frame.rows)
    /\ ~HasAllYears(dictionary[table_i].frame.rows[row_i], year_list)
    /\ jpc' = "raised"
    /\ UNCHANGED <<dictionary, year_list, base0, base, data, aliased, table_i, row_i, result, notJoin>>

\* lines 55-56, after the last row of table table_i
TableEnd ==
    /\ jpc = "for_row"
    /\ row_i > Len(dictionary[table_i].frame.rows)
    /\ data' = drop(copy_temp(data, dictionary[table_i].key), "temp")
    /\ base' = Through(drop(copy_temp(data, dictionary[table_i].key), "temp"))
    /\ table_i' = table_i + 1
    /\ jpc' = "for_key"
    /\ UNCHANGED <<dictionary, year_list, base0, aliased, row_i, result, notJoin>>

\* line 57: return data
Return ==
    /\ jpc = "for_key"
    /\ table_i > Len(dictionary)
    /\ result' = returned(data)
    /\ jpc' = "done"
    /\ UNCHANGED <<dictionary, year_list, base0, base, data, aliased, table_i, row_i, notJoin>>

JoinNext == TableStart \/ RowMerge \/ RowKeyError \/ TableEnd \/ Return

SpecJoin == JoinInit /\ [][JoinNext]_vars

\* join_data over tables of at most one row each.
SpecJoinSingle == JoinSingleInit /\ [][JoinNext]_vars

\* ---- what the claims about join_data speak of

\* The rows of country c in frame d.
RowsOf(d, c) == { row \in d.rows : row.country_code = c }

\* Two single-row tables for the same country, joined into a panel that holds
\* no row for that country and no column named like either table.
TwoSingleRowTables ==
    /\ Len(dictionary) = 2
    /\ Len(dictionary[1].frame.rows) = 1
    /\ Len(dictionary[2].frame.rows) = 1
    /\ dictionary[1].frame.rows[1].country_code = dictionary[2].frame.rows[1].country_code
    /\ RowsOf(base0, dictionary[1].frame.rows[1].country_code) = {}
    /\ base0.cols \cap {dictionary[1].key, dictionary[2].key} = {}

DisjointYearColumns == dictionary[1].frame.cols \cap dictionary[2].frame.cols = {}

\* The value table k has for year y, missing when it has no column for y.
TableValue(k, y) ==
    IF str(y) \in dictionary[k].frame.cols
      THEN dictionary[k].frame.rows[1].vals[str(y)]
      ELSE NaN

\* The returned panel has, for the tables' country, one row per year of
\* year_range, each indicator holding its table's value where the table has a
\* column for the year and missing elsewhere.
OneRowPerYear ==
    LET c == dictionary[1].frame.rows[1].country_code
    IN  /\ { row.year : row \in RowsOf(result, c) } = year_range(year_list)
        /\ \A a, b \in RowsOf(result, c) : a.year = b.year => a = b
        /\ \A row \in RowsOf(result, c) : \A k \in 1..2 :
             row.vals[dictionary[k].key] = TableValue(k, row.year)

\* C2 as stated: with two single-row tables for one country whose year columns
\* are disjoint, join_data returns a panel with one row per year of year_range,
\* each indicator populated exactly where its table has a column, and no
\* (country_code, year) twice.
C2_DisjointYears ==
    (TwoSingleRowTables /\ DisjointYearColumns) =>
        /\ jpc # "raised"
        /\ jpc = "done" => (OneRowPerYear /\ UniqueKeys(result))

\* C2 amended: with two single-row tables for one country, join_data returns
\* only when both tables have a column for every year of year_range, and then
\* the panel has one row per year for that country with both indicators taken
\* from the tables and no (country_code, year) twice; a table without a column
\* for some year of the range (so always, when the year columns are disjoint and
\* the range is not empty) makes the call raise KeyError instead.
C2_CoveredYears ==
    TwoSingleRowTables =>
        /\ jpc = "done" =>
             /\ \A k \in 1..2 : \A y \in year_range(year_list) :
                    str(y) \in dictionary[k].frame.cols
             /\ OneRowPerYear
             /\ UniqueKeys(result)
        /\ jpc = "raised" =>
             \E k \in 1..2 : \E y \in year_range(year_list) :
                    str(y) \notin dictionary[k].frame.cols
        /\ (DisjointYearColumns /\ year_range(year_list) # {}) => jpc # "done"

\* C2 witness: the call returned a two-year panel for two single-row tables
\* whose values differ.
C2_Witness ==
    /\ TwoSingleRowTables
    /\ jpc = "done"
    /\ Cardinality(year_range(year_list)) = 2
    /\ base0.rows # {}
    /\ \E row \in result.rows :
         /\ row.vals[dictionary[1].key] = 1
         /\ row.vals[dictionary[2].key] = 2

\* The (country_code, year) keys produced for the rows of table k.
TableKeys(k) ==
    { <<dictionary[k].frame.rows[m].country_code, y>> :
        m \in 1..Len(dictionary[k].frame.rows), y \in year_range(year_list) }

\* C3: after each indicator table has been processed (and so at return) the
\* panel holds exactly one row per (country_code, year), the keys being those of
\* the base panel and those produced for every row of every table processed.
C3_OneRowPerKey ==
    ((jpc = "for_key" \/ jpc = "done") /\ UniqueKeys(base0)) =>
        /\ UniqueKeys(data)
        /\ Keys(data) = Keys(base0) \cup UNION { TableKeys(k) : k \in 1..(table_i - 1) }

\* C4: join_data leaves the caller's base panel (and the tables) as they were.
C4_InputsUnchanged == jpc = "done" => base = base0

\* C7: joining zero indicator tables returns the base panel, rows and columns
\* unchanged.
C7_ZeroTables ==
    (jpc = "done" /\ dictionary = <<>>) => (result = base0 /\ base = base0)

\* C7 witness: a base panel with a row and a missing value came back from a call
\* with no tables.
C7_Witness ==
    /\ jpc = "done"
    /\ dictionary = <<>>
    /\ result = base0
    /\ \E row \in base0.rows : "GDP" \in base0.cols /\ row.vals["GDP"] = NaN

\* ---- the single-pass join of the design notes

RECURSIVE FirstPresent(_, _, _, _)
\* The value of the first row of country c, from row m on, that has a value
\* for year y; missing when there is none.
FirstPresent(frame, c, y, m) ==
    IF m > Len(frame.rows) THEN NaN
    ELSE IF frame.rows[m].country_code = c /\ frame.rows[m].vals[str(y)] # NaN
           THEN frame.rows[m].vals[str(y)]
           ELSE FirstPresent(frame, c, y, m + 1)

\* An indicator's full (country, year) -> value mapping.
FullMapping(frame, yl) ==
    [ k \in { <<frame.rows[m].country_code, y>> :
                m \in 1..Len(frame.rows), y \in year_range(yl) }
        |-> FirstPresent(frame, k[1], k[2], 1) ]

\* One outer merge of a mapping into the panel, adding or overwriting column
\* key: the mapping's value where it has one. Where it has none the column is
\* missing, or, for a column the panel already had, the old value when keep.
MergeOnce(d, mapping, key, keep) ==
    [cols |-> d.cols \cup {key},
     rows |->
        { [row EXCEPT !.vals = [c \in d.cols \cup {key} |->
              IF c = key
                THEN (IF Key(row) \in DOMAIN mapping THEN mapping[Key(row)]
                      ELSE IF keep /\ key \in d.cols THEN row.vals[key] ELSE NaN)
                ELSE row.vals[c]]] : row \in d.rows }
        \cup { [country_code |-> k[1], year |-> k[2],
                vals |-> [c \in d.cols \cup {key} |->
                            IF c = key THEN mapping[k] ELSE NaN]] :
                 k \in DOMAIN mapping \ Keys(d) }]

RECURSIVE SinglePass(_, _, _, _, _)
\* The single-pass join: one MergeOnce per indicator table, from table k on.
SinglePass(dict, d, yl, k, keep) ==
    IF k > Len(dict) THEN d
    ELSE SinglePass(dict, MergeOnce(d, FullMapping(dict[k].frame, yl), dict[k].key, keep),
                    yl, k + 1, keep)

\* C9: whenever join_data returns, its panel is the one the single-pass join
\* gives: the same (country_code, year) rows and the same indicator values
\* (whichever the single pass does with the old values of an overwritten column).
C9_SameAsSinglePass ==
    jpc = "done" =>
        \E keep \in BOOLEAN : result = SinglePass(dictionary, base0, year_list, 1, keep)

====
